---- MODULE Spec2Model ----
(***************************************************************************)
(* Model of meta/gen.py: the script that copies src/example.rs into the    *)
(* doc comment of src/lib.rs and into the Usage section of ReadMe.md.      *)
(*                                                                         *)
(* A text is a sequence of characters; a character is a one-character      *)
(* string, except the backtick, which TLA+ strings cannot hold and which   *)
(* is written BT.  The file system maps the three paths to a text or to    *)
(* NoFile, a sequence that is no text.  One action models one statement of *)
(* the module body.                                                        *)
(***************************************************************************)
EXTENDS Integers, Sequences, FiniteSets, TLC

VARIABLES
  fs,        \* the files: path -> text, or NoFile when the path does not exist
  pc,        \* the statement the interpreter executes next, "done" or "failed"
  err,       \* the uncaught exception that ended the process and the line of
             \* the module body it came from (the traceback), NoErr when none
  example,   \* module variable example (gen.py:18)
  parts,     \* module variable parts (gen.py:19, gen.py:25)
  lib,       \* module variable lib (gen.py:21)
  readme,    \* module variable readme (gen.py:27, gen.py:28)
  pre,       \* history: the files as they were when this process started
  last,      \* history: how the previous process ended and what it left
  runs,      \* number of processes started so far
  dtext,     \* decorate study: the input text
  dpre,      \* decorate study: the two prefixes <<P1, P2>>
  dout,      \* decorate study: what the applications of decorate returned
  dstage     \* decorate study: number of applications of decorate done

vars == <<fs, pc, err, example, parts, lib, readme, pre, last, runs,
          dtext, dpre, dout, dstage>>

runVars == <<fs, pc, err, example, parts, lib, readme, pre, last, runs>>
decVars == <<dtext, dpre, dout, dstage>>

(***************************************************************************)
(* Bounds                                                                  *)
(***************************************************************************)
MaxExLines == 1
MaxLibFrags == 3
MaxReadmeFrags == 3
MaxMissing == 1
MaxRuns == 2
MaxDecLen == 3
MaxPreLen == 2

(***************************************************************************)
(* Characters and the literals of gen.py                                   *)
(***************************************************************************)
NL == "\n"
BT == "<backtick>"
NoFile == <<"<no such file>">>

EXAMPLE_RS == "src/example.rs"
LIB_RS == "src/lib.rs"
README_MD == "ReadMe.md"
Paths == {EXAMPLE_RS, LIB_RS, README_MD}

LIB_MARK == <<"/", "/", " ", "l", "i", "b", NL>>
DOC_PRE == <<"/", "/", "!">>
\* variant: the separator without the marker line
LIB_SEP_bare == <<NL, NL>>

LIB_SEP == <<NL, NL>> \o LIB_MARK
USAGE == <<"#", " ", "U", "s", "a", "g", "e", NL>>
LOGGING == <<"#", " ", "L", "o", "g", "g", "i", "n", "g", NL>>
README_PATTERN == <<USAGE, LOGGING>>
USAGE_OPEN == USAGE \o <<NL, BT, BT, BT, "r", "u", "s", "t", NL>>
LOGGING_CLOSE == <<BT, BT, BT, NL, NL>> \o LOGGING

(***************************************************************************)
(* Python string primitives                                                *)
(***************************************************************************)
startswith(s, p) == Len(s) >= Len(p) /\ SubSeq(s, 1, Len(p)) = p

drop(s, n) == SubSeq(s, n + 1, Len(s))

\* str.split(sep): leftmost, non-overlapping occurrences, every one of them
RECURSIVE split_scan(_, _, _)
split_scan(s, sep, cur) ==
  IF s = <<>> THEN <<cur>>
  ELSE IF startswith(s, sep)
       THEN <<cur>> \o split_scan(drop(s, Len(sep)), sep, <<>>)
       ELSE split_scan(Tail(s), sep, Append(cur, Head(s)))

split(s, sep) == split_scan(s, sep, <<>>)

\* length of the match of the alternation at the head of s, 0 when none:
\* the alternatives are tried in order
RECURSIVE re_match(_, _)
re_match(alts, s) ==
  IF alts = <<>> THEN 0
  ELSE IF startswith(s, Head(alts)) THEN Len(Head(alts))
       ELSE re_match(Tail(alts), s)

\* re.split(pattern, s) for a pattern without groups and without empty match
RECURSIVE re_split_scan(_, _, _)
re_split_scan(alts, s, cur) ==
  IF s = <<>> THEN <<cur>>
  ELSE IF re_match(alts, s) > 0
       THEN <<cur>> \o re_split_scan(alts, drop(s, re_match(alts, s)), <<>>)
       ELSE re_split_scan(alts, Tail(s), Append(cur, Head(s)))

re_split(alts, s) == re_split_scan(alts, s, <<>>)

\* sep.join(xs)
RECURSIVE join(_, _)
join(sep, xs) ==
  IF xs = <<>> THEN <<>>
  ELSE IF Len(xs) = 1 THEN xs[1]
       ELSE xs[1] \o sep \o join(sep, Tail(xs))

\* variant: the prefix put once, in front of the whole text
decorate_first(text, prefix) == prefix \o text

decorate(text, prefix) ==
  LET lines == split(text, <<NL>>)
  IN  join(<<NL>>, [i \in 1..Len(lines) |-> prefix \o lines[i]])

read_file(path) == fs[path]

\* variant: the file opened for appending
write_file_append(path, content) ==
  [fs EXCEPT ![path] = (IF fs[path] = NoFile THEN <<>> ELSE fs[path]) \o content]

write_file(path, content) == [fs EXCEPT ![path] = content]

(***************************************************************************)
(* Inputs                                                                  *)
(***************************************************************************)
RECURSIVE Concats(_, _)
Concats(F, n) ==
  IF n = 0 THEN {<<>>}
  ELSE LET S == Concats(F, n - 1) IN S \cup {s \o f : s \in S, f \in F}

\* an example: some lines of code, then nothing or one line that looks like an
\* anchor of the library file or of the README
RECURSIVE CodeLines(_)
CodeLines(k) == IF k = 0 THEN <<>> ELSE <<"f", NL>> \o CodeLines(k - 1)

ExampleTails == {<<>>, <<"/", "/", " ", "l", "i", "b">>, LIB_MARK, USAGE, LOGGING}
LibFrags == {<<"h">>, LIB_MARK}
ReadmeFrags == {<<"a">>, USAGE, LOGGING}

ExampleTexts == {CodeLines(k) \o t : k \in 0..MaxExLines, t \in ExampleTails}
LibTexts == Concats(LibFrags, MaxLibFrags)
ReadmeTexts == Concats(ReadmeFrags, MaxReadmeFrags)

DecTexts == Concats({<<"a">>, <<NL>>}, MaxDecLen)
DecPrefixes == Concats({<<"p">>, <<"q">>, <<NL>>}, MaxPreLen)

Missing(f) == {p \in Paths : f[p] = NoFile}

Files ==
  {f \in {[p \in Paths |-> IF p = EXAMPLE_RS THEN e
                           ELSE IF p = LIB_RS THEN l ELSE r] :
            e \in ExampleTexts \cup {NoFile},
            l \in LibTexts \cup {NoFile},
            r \in ReadmeTexts \cup {NoFile}} :
     Cardinality(Missing(f)) <= MaxMissing}

NoErr == [type |-> "", line |-> 0]

NoRun == [ok |-> FALSE, example |-> <<>>, lib |-> <<>>, readme |-> <<>>]

(***************************************************************************)
(* The process                                                             *)
(***************************************************************************)
InitRun ==
  /\ fs \in Files
  /\ pc = "L18"
  /\ err = NoErr
  /\ example = <<>>
  /\ parts = <<>>
  /\ lib = <<>>
  /\ readme = <<>>
  /\ pre = fs
  /\ last = NoRun
  /\ runs = 1

IdleDec ==
  /\ dtext = <<>>
  /\ dpre = <<<<>>, <<>>>>
  /\ dout = <<>>
  /\ dstage = 0

Init == InitRun /\ IdleDec

\* an exception nobody catches ends the process
Raise(type, line) ==
  /\ pc' = "failed"
  /\ err' = [type |-> type, line |-> line]

\* example = read_file("src/example.rs")
L18 ==
  /\ pc = "L18"
  /\ IF read_file(EXAMPLE_RS) = NoFile
     THEN Raise("FileNotFoundError", 18) /\ UNCHANGED example
     ELSE example' = read_file(EXAMPLE_RS) /\ pc' = "L19" /\ UNCHANGED err
  /\ UNCHANGED <<fs, parts, lib, readme, pre, last, runs>>
  /\ UNCHANGED decVars

\* variant: a missing library file read as the empty text
L19_lenient ==
  /\ pc = "L19"
  /\ parts' = split(IF read_file(LIB_RS) = NoFile THEN <<>> ELSE read_file(LIB_RS),
                    LIB_MARK)
  /\ pc' = "L21"
  /\ UNCHANGED <<fs, err, example, lib, readme, pre, last, runs>>
  /\ UNCHANGED decVars

\* parts = read_file("src/lib.rs").split("// lib\n")
L19 ==
  /\ pc = "L19"
  /\ IF read_file(LIB_RS) = NoFile
     THEN Raise("FileNotFoundError", 19) /\ UNCHANGED parts
     ELSE parts' = split(read_file(LIB_RS), LIB_MARK) /\ pc' = "L21"
          /\ UNCHANGED err
  /\ UNCHANGED <<fs, example, lib, readme, pre, last, runs>>
  /\ UNCHANGED decVars

\* variant: parts[0], the text before the marker, kept
L21_head ==
  /\ pc = "L21"
  /\ IF Len(parts) < 2
     THEN Raise("IndexError", 21) /\ UNCHANGED lib
     ELSE lib' = decorate(example, DOC_PRE) \o LIB_SEP \o parts[1]
          /\ pc' = "L23" /\ UNCHANGED err
  /\ UNCHANGED <<fs, example, parts, readme, pre, last, runs>>
  /\ UNCHANGED decVars

\* variant: parts[-1], the last segment, kept
L21_last ==
  /\ pc = "L21"
  /\ lib' = decorate(example, DOC_PRE) \o LIB_SEP \o parts[Len(parts)]
  /\ pc' = "L23"
  /\ UNCHANGED <<fs, err, example, parts, readme, pre, last, runs>>
  /\ UNCHANGED decVars

\* lib = decorate(example, "//!") + "\n\n// lib\n" + parts[1]
L21 ==
  /\ pc = "L21"
  /\ IF Len(parts) < 2
     THEN Raise("IndexError", 21) /\ UNCHANGED lib
     ELSE lib' = decorate(example, DOC_PRE) \o LIB_SEP \o parts[2]
          /\ pc' = "L23" /\ UNCHANGED err
  /\ UNCHANGED <<fs, example, parts, readme, pre, last, runs>>
  /\ UNCHANGED decVars

\* variant: the library file not written
L23_skip ==
  /\ pc = "L23"
  /\ pc' = "L25"
  /\ UNCHANGED <<fs, err, example, parts, lib, readme, pre, last, runs>>
  /\ UNCHANGED decVars

\* write_file("src/lib.rs", lib)
L23 ==
  /\ pc = "L23"
  /\ fs' = write_file(LIB_RS, lib)
  /\ pc' = "L25"
  /\ UNCHANGED <<err, example, parts, lib, readme, pre, last, runs>>
  /\ UNCHANGED decVars

\* parts = re.split("# Usage\n|# Logging\n", read_file("ReadMe.md"))
L25 ==
  /\ pc = "L25"
  /\ IF read_file(README_MD) = NoFile
     THEN Raise("FileNotFoundError", 25) /\ UNCHANGED parts
     ELSE parts' = re_split(README_PATTERN, read_file(README_MD))
          /\ pc' = "L27" /\ UNCHANGED err
  /\ UNCHANGED <<fs, example, lib, readme, pre, last, runs>>
  /\ UNCHANGED decVars

\* readme = parts[0] + "# Usage\n\n```rust\n" + example
L27 ==
  /\ pc = "L27"
  /\ readme' = parts[1] \o USAGE_OPEN \o example
  /\ pc' = "L28"
  /\ UNCHANGED <<fs, err, example, parts, lib, pre, last, runs>>
  /\ UNCHANGED decVars

\* variant: parts[1], the old Usage body, kept
L28_body ==
  /\ pc = "L28"
  /\ IF Len(parts) < 3
     THEN Raise("IndexError", 28) /\ UNCHANGED readme
     ELSE readme' = readme \o LOGGING_CLOSE \o parts[2]
          /\ pc' = "L30" /\ UNCHANGED err
  /\ UNCHANGED <<fs, example, parts, lib, pre, last, runs>>
  /\ UNCHANGED decVars

\* readme = readme + "```\n\n# Logging\n" + parts[2]
L28 ==
  /\ pc = "L28"
  /\ IF Len(parts) < 3
     THEN Raise("IndexError", 28) /\ UNCHANGED readme
     ELSE readme' = readme \o LOGGING_CLOSE \o parts[3]
          /\ pc' = "L30" /\ UNCHANGED err
  /\ UNCHANGED <<fs, example, parts, lib, pre, last, runs>>
  /\ UNCHANGED decVars

\* write_file("ReadMe.md", readme)
L30 ==
  /\ pc = "L30"
  /\ fs' = write_file(README_MD, readme)
  /\ pc' = "done"
  /\ UNCHANGED <<err, example, parts, lib, readme, pre, last, runs>>
  /\ UNCHANGED decVars

Ended == pc \in {"done", "failed"}

\* the process that completed is gone: its variables are discarded, the files
\* stay.  (A process that failed exits too, but nothing the model does to the
\* files afterwards lets the next process get further, so the model rests.)
Exit ==
  /\ pc = "done"
  /\ runs < MaxRuns
  /\ last' = [ok |-> TRUE, example |-> example,
              lib |-> fs[LIB_RS], readme |-> fs[README_MD]]
  /\ pre' = fs
  /\ pc' = "exited"
  /\ example' = <<>>
  /\ parts' = <<>>
  /\ lib' = <<>>
  /\ readme' = <<>>
  /\ UNCHANGED <<fs, err, runs>>
  /\ UNCHANGED decVars

\* between two processes the author of the example changes it
EditExample ==
  /\ pc = "exited"
  /\ \E e \in ExampleTexts \ {fs[EXAMPLE_RS]} :
       /\ fs' = [fs EXCEPT ![EXAMPLE_RS] = e]
       /\ pre' = fs'
  /\ UNCHANGED <<pc, err, example, parts, lib, readme, last, runs>>
  /\ UNCHANGED decVars

\* the script is started again: a new process on the files as they are
Rerun ==
  /\ pc = "exited"
  /\ runs' = runs + 1
  /\ pc' = "L18"
  /\ UNCHANGED <<fs, err, example, parts, lib, readme, pre, last>>
  /\ UNCHANGED decVars

Next ==
  \/ L18
  \/ L19
  \/ L21
  \/ L23
  \/ L25
  \/ L27
  \/ L28
  \/ L30
  \/ Exit
  \/ EditExample
  \/ Rerun

Spec == Init /\ [][Next]_vars

(***************************************************************************)
(* decorate as a pure function: applied to a text with one prefix, then to *)
(* the result with a second prefix                                         *)
(***************************************************************************)
IdleRun ==
  /\ fs = [p \in Paths |-> NoFile]
  /\ pc = "idle"
  /\ err = NoErr
  /\ example = <<>>
  /\ parts = <<>>
  /\ lib = <<>>
  /\ readme = <<>>
  /\ pre = fs
  /\ last = NoRun
  /\ runs = 0

InitDec ==
  /\ IdleRun
  /\ dtext \in DecTexts
  /\ dpre \in DecPrefixes \X DecPrefixes
  /\ dout = <<>>
  /\ dstage = 0

Decorate1 ==
  /\ dstage = 0
  /\ dout' = decorate(dtext, dpre[1])
  /\ dstage' = 1
  /\ UNCHANGED <<dtext, dpre>>
  /\ UNCHANGED runVars

Decorate2 ==
  /\ dstage = 1
  /\ dout' = decorate(dout, dpre[2])
  /\ dstage' = 2
  /\ UNCHANGED <<dtext, dpre>>
  /\ UNCHANGED runVars

NextDec ==
  \/ Decorate1
  \/ Decorate2

SpecDec == InitDec /\ [][NextDec]_vars

(***************************************************************************)
(* Vocabulary of the properties, defined on characters and positions and   *)
(* not through split, re_split or decorate                                 *)
(***************************************************************************)
\* the positions at which m occurs in s
Occ(s, m) == {i \in 1..(Len(s) - Len(m) + 1) : SubSeq(s, i, i + Len(m) - 1) = m}

Count(s, m) == Cardinality(Occ(s, m))

First(S) == CHOOSE i \in S : \A j \in S : i <= j

\* the text that follows the occurrence of m at position i
After(s, m, i) == SubSeq(s, i + Len(m), Len(s))

\* the text that precedes position i
Before(s, i) == SubSeq(s, 1, i - 1)

endswith(s, t) == Len(s) >= Len(t) /\ SubSeq(s, Len(s) - Len(t) + 1, Len(s)) = t

\* p put in front of the text and after each of its newlines
RECURSIVE AfterEachNewline(_, _)
AfterEachNewline(t, p) ==
  IF t = <<>> THEN <<>>
  ELSE (IF Head(t) = NL THEN <<NL>> \o p ELSE <<Head(t)>>)
       \o AfterEachNewline(Tail(t), p)

EachLinePrefixed(t, p) == p \o AfterEachNewline(t, p)

NumLines(t) == Count(t, <<NL>>) + 1

IsText(x) == x # NoFile

(***************************************************************************)
(* Properties                                                              *)
(***************************************************************************)

\* C9 (as stated): decorate with P1 and then with P2 yields as many lines as
\* T has, each the line of T prefixed with P1 + P2.
C9_ComposeP1P2 ==
  dstage = 2 =>
    /\ dout = EachLinePrefixed(dtext, dpre[1] \o dpre[2])
    /\ NumLines(dout) = NumLines(dtext)

\* C9 (amended): when P1 holds no newline, decorate with P1 and then with P2
\* yields each line of T prefixed with P2 + P1, the second prefix outermost;
\* when P2 holds no newline either, the result has as many lines as T.
C9_ComposeP2P1 ==
  (dstage = 2 /\ Count(dpre[1], <<NL>>) = 0) =>
    /\ dout = EachLinePrefixed(dtext, dpre[2] \o dpre[1])
    /\ Count(dpre[2], <<NL>>) = 0 => NumLines(dout) = NumLines(dtext)

C9_Witness ==
  /\ dstage = 2
  /\ dpre = <<<<"p">>, <<"q">>>>
  /\ dtext = <<"a", NL, "a">>
  /\ dout = <<"q", "p", "a", NL, "q", "p", "a">>

\* what this process read at its start
E0 == pre[EXAMPLE_RS]
L0 == pre[LIB_RS]
R0 == pre[README_MD]

\* line 23 has been executed by this process
LibWritten ==
  \/ pc \in {"L25", "L27", "L28", "L30", "done"}
  \/ pc = "failed" /\ err.line > 23

\* line 30 has been executed by this process
ReadmeWritten == pc = "done"

\* "//!x" for every line x of the example, then "\n\n// lib\n"
DocBlock(e) == EachLinePrefixed(e, <<"/", "/", "!">>)
                 \o <<NL, NL, "/", "/", " ", "l", "i", "b", NL>>

\* "# Usage\n\n```rust\n", the example, "```\n\n# Logging\n"
UsageBlock(e) ==
  <<"#", " ", "U", "s", "a", "g", "e", NL, NL, BT, BT, BT, "r", "u", "s", "t", NL>>
    \o e
    \o <<BT, BT, BT, NL, NL, "#", " ", "L", "o", "g", "g", "i", "n", "g", NL>>

\* C1: when the library text is H + "// lib\n" + T with the marker occurring
\* exactly once, the library file written by the run is the example with
\* "//!" before each of its lines, then "\n\n// lib\n", then T.
C1_LibrarySplice ==
  (LibWritten /\ Count(L0, LIB_MARK) = 1) =>
    \A i \in Occ(L0, LIB_MARK) :
      fs[LIB_RS] = DocBlock(E0) \o After(L0, LIB_MARK, i)

C1_Witness ==
  /\ pc = "done"
  /\ runs = 1
  /\ E0 = <<"f", NL>>
  /\ L0 = <<"h">> \o LIB_MARK \o <<"h">>
  /\ fs[LIB_RS] = <<"/", "/", "!", "f", NL, "/", "/", "!", NL, NL,
                    "/", "/", " ", "l", "i", "b", NL, "h">>

\* C2: when the README is A + "# Usage\n" + B + "# Logging\n" + C with each
\* anchor occurring exactly once and in that order, the README written by the
\* run is A + "# Usage\n\n```rust\n" + E + "```\n\n# Logging\n" + C.
C2_ReadmeSplice ==
  (ReadmeWritten /\ Count(R0, USAGE) = 1 /\ Count(R0, LOGGING) = 1) =>
    \A i \in Occ(R0, USAGE) : \A j \in Occ(R0, LOGGING) :
      i < j =>
        fs[README_MD] = Before(R0, i) \o UsageBlock(E0) \o After(R0, LOGGING, j)

C2_Witness ==
  /\ pc = "done"
  /\ runs = 1
  /\ E0 = <<"f", NL>>
  /\ R0 = USAGE \o <<"a">> \o LOGGING
  /\ fs[README_MD] = UsageBlock(<<"f", NL>>)

\* the second of two runs in succession on an unchanged example
SecondRun == last.ok /\ last.example = E0

\* C3 (as stated): for any example, a second run right after a successful
\* first run also succeeds and leaves both files as the first run left them.
C3_Idempotent ==
  (SecondRun /\ pc \in {"done", "failed"}) =>
    /\ pc = "done"
    /\ fs[LIB_RS] = last.lib
    /\ fs[README_MD] = last.readme

\* no line of the example ends with "// lib", and the example holds neither
\* "# Usage\n" nor "# Logging\n"
AnchorFree(e) ==
  /\ Count(e \o <<NL>>, LIB_MARK) = 0
  /\ Count(e, USAGE) = 0
  /\ Count(e, LOGGING) = 0

\* C3 (amended): the same, for an example no line of which ends with "// lib"
\* and which contains neither "# Usage\n" nor "# Logging\n".
C3_IdempotentAnchorFree ==
  (SecondRun /\ AnchorFree(E0) /\ pc \in {"done", "failed"}) =>
    /\ pc = "done"
    /\ fs[LIB_RS] = last.lib
    /\ fs[README_MD] = last.readme

C3_Witness ==
  /\ SecondRun
  /\ pc = "done"
  /\ E0 = <<"f", NL>>
  /\ fs[LIB_RS] = last.lib
  /\ fs[README_MD] = last.readme
  /\ fs[LIB_RS] = DocBlock(E0) \o <<"h">>

\* C4: when the marker occurs more than once, the written library text ends
\* with all the input text after the first occurrence, later markers and the
\* text after them included.
C4_TailAfterFirstMarker ==
  (LibWritten /\ Count(L0, LIB_MARK) > 1) =>
    endswith(fs[LIB_RS], After(L0, LIB_MARK, First(Occ(L0, LIB_MARK))))

\* the README lacks an anchor, or holds each once with "# Logging\n" first
BadReadme(r) ==
  \/ Count(r, USAGE) = 0
  \/ Count(r, LOGGING) = 0
  \/ /\ Count(r, USAGE) = 1
     /\ Count(r, LOGGING) = 1
     /\ First(Occ(r, LOGGING)) < First(Occ(r, USAGE))

\* C5: on a README that lacks "# Usage\n" or "# Logging\n", or has them once
\* each in reverse order, the readme splice fails with the missing-anchor
\* error and the README is not written.
C5_BadReadmeFails ==
  (IsText(R0) /\ BadReadme(R0)) =>
    /\ pc \notin {"L30", "done"}
    /\ fs[README_MD] = R0
    /\ (pc = "failed" /\ err.line > 25) => err = [type |-> "IndexError", line |-> 28]

\* C6 (as stated): when one of the three files is missing the run aborts
\* before any write has been performed: it does not complete and both the
\* library file and the README keep their pre-run contents.
C6_MissingAbortsBeforeWrite ==
  Missing(pre) # {} =>
    /\ pc # "done"
    /\ fs[LIB_RS] = L0
    /\ fs[README_MD] = R0

\* C6 (amended): a missing example or library file aborts the run with the
\* missing-resource error before any write.  A missing README never gets
\* written, but it is looked for only after the library file was spliced and
\* written: the run then ends either with the missing-anchor error of the
\* library splice, nothing written, or with the missing-resource error of
\* the README load, the library file holding the newly spliced text.
C6_MissingInput ==
  /\ (~IsText(E0) \/ ~IsText(L0)) =>
       /\ fs[LIB_RS] = L0
       /\ fs[README_MD] = R0
       /\ pc \in {"L18", "L19", "failed"}
       /\ pc = "failed" => /\ err.type = "FileNotFoundError"
                           /\ err.line = (IF IsText(E0) THEN 19 ELSE 18)
  /\ (IsText(E0) /\ IsText(L0) /\ ~IsText(R0)) =>
       /\ fs[README_MD] = R0
       /\ pc # "done"
       /\ pc = "failed" =>
            \/ /\ err = [type |-> "IndexError", line |-> 21]
               /\ fs[LIB_RS] = L0
            \/ /\ err = [type |-> "FileNotFoundError", line |-> 25]
               /\ startswith(fs[LIB_RS], DocBlock(E0))

C6_Witness ==
  /\ ~IsText(R0)
  /\ pc = "failed"
  /\ err = [type |-> "FileNotFoundError", line |-> 25]
  /\ fs[LIB_RS] # L0
  /\ ~IsText(fs[README_MD])

\* C7: the library file is written before the README is loaded or spliced,
\* and nothing is rolled back: while the README is loaded and spliced, and
\* after an abort there, the library file holds the newly spliced text and
\* the README its pre-run contents.
C7_LibraryWrittenFirst ==
  (\/ pc \in {"L25", "L27", "L28"}
   \/ pc = "failed" /\ err.line \in {25, 28}) =>
    /\ fs[LIB_RS] = lib
    /\ startswith(lib, DocBlock(E0))
    /\ fs[README_MD] = R0

C7_Witness ==
  /\ pc = "failed"
  /\ err = [type |-> "IndexError", line |-> 28]
  /\ fs[LIB_RS] = lib
  /\ fs[LIB_RS] # L0
  /\ fs[README_MD] = R0

\* C8: on a library text without the marker the library splice fails with the
\* missing-anchor error and neither file is written.
C8_NoMarkerFails ==
  (IsText(E0) /\ IsText(L0) /\ Count(L0, LIB_MARK) = 0) =>
    /\ pc \in {"L18", "L19", "L21", "failed"}
    /\ pc = "failed" => err = [type |-> "IndexError", line |-> 21]
    /\ fs[LIB_RS] = L0
    /\ fs[README_MD] = R0

C8_Witness ==
  /\ pc = "failed"
  /\ err = [type |-> "IndexError", line |-> 21]
  /\ L0 = <<"h", "h">>
  /\ IsText(R0)
  /\ fs[LIB_RS] = L0
  /\ fs[README_MD] = R0

\* the text holds "# Usage\n" and, somewhere after it, "# Logging\n"
UsageThenLogging(r) ==
  \E i \in Occ(r, USAGE) : \E j \in Occ(r, LOGGING) : i < j

\* C10: a run that completes leaves a library file with the marker and a
\* README with "# Usage\n" followed later by "# Logging\n"; a run started on
\* the files a successful run left never fails with the missing-anchor error.
C10_AnchorsSurvive ==
  /\ pc = "done" =>
       /\ Count(fs[LIB_RS], LIB_MARK) >= 1
       /\ UsageThenLogging(fs[README_MD])
  /\ last.ok => err.type # "IndexError"

C10_Witness ==
  /\ last.ok
  /\ last.example # E0
  /\ Count(last.example, LIB_MARK) = 1
  /\ E0 = LOGGING
  /\ pc = "done"

====
